---------------------------- MODULE Spec2Model ----------------------------
(***************************************************************************)
(* A model of tester.py: argparse.parse_args over the process's argument   *)
(* vector, followed by the module-level greeting loop.                     *)
(*                                                                         *)
(* An argument is a tuple of one-character strings (so that int() and the  *)
(* option lookup read it character by character); a line of standard       *)
(* output or standard error is a string.  The alien emoji of the greeting  *)
(* (code point U+1F47D) is written Alien.                                  *)
(*                                                                         *)
(* The argument alphabet has the exact option strings -c, -n, --greet and  *)
(* -h and four values.  It has no '=' forms, no attached short values      *)
(* (-n2), no abbreviated long options, no '--' and no blanks, so the       *)
(* parser model leaves those branches of argparse out.                     *)
(*                                                                         *)
(* Standard output and standard error are taken to accept every line       *)
(* written to them (a UTF-8 stream that is open).                          *)
(***************************************************************************)
EXTENDS Integers, Sequences, FiniteSets

VARIABLES argv, pc, args, i, stdout, stderr, exitcode

vars == <<argv, pc, args, i, stdout, stderr, exitcode>>

\* The longest argument vector explored.
MaxArgs == 5

-----------------------------------------------------------------------------
(* Text *)

RECURSIVE Join(_)
\* The string spelled by a tuple of characters.
Join(cs) == IF cs = <<>> THEN "" ELSE Head(cs) \o Join(Tail(cs))

RECURSIVE JoinWith(_, _)
\* sep.join(strs) for a tuple of strings.
JoinWith(strs, sep) ==
    IF strs = <<>> THEN ""
    ELSE IF Len(strs) = 1 THEN Head(strs)
    ELSE Head(strs) \o sep \o JoinWith(Tail(strs), sep)

Digits == <<"0", "1", "2", "3", "4", "5", "6", "7", "8", "9">>

IsDigit(c) == \E d \in 1..10 : Digits[d] = c

DigitVal(c) == (CHOOSE d \in 1..10 : Digits[d] = c) - 1

RECURSIVE NatStr(_)
\* str(n) for n >= 0, as the f-string formats the loop index.
NatStr(n) == IF n < 10 THEN Digits[n + 1]
             ELSE NatStr(n \div 10) \o Digits[(n % 10) + 1]

\* The emoji of the greeting, U+1F47D.
Alien == "<U+1F47D>"

-----------------------------------------------------------------------------
(* The parser built by lines 7-10 *)

OptC      == <<"-", "c">>
OptN      == <<"-", "n">>
OptGreet  == <<"-", "-", "g", "r", "e", "e", "t">>
OptH      == <<"-", "h">>
LongName  == <<"-", "-", "c", "l", "o", "n", "e", "_", "n", "a", "m", "e">>
LongCount == <<"-", "-", "c", "l", "o", "n", "e", "_", "c", "o", "u", "n", "t">>
LongHelp  == <<"-", "-", "h", "e", "l", "p">>

\* The destination an option string is registered for ("" when it is none).
Dest(tok) ==
    IF tok \in {OptC, LongName} THEN "clone_name"
    ELSE IF tok \in {OptN, LongCount} THEN "clone_count"
    ELSE IF tok = OptGreet THEN "greet"
    ELSE IF tok \in {OptH, LongHelp} THEN "help"
    ELSE ""

\* How an error message names the argument of a destination.
ArgName(dest) ==
    IF dest = "clone_name" THEN "-c/--clone_name"
    ELSE IF dest = "clone_count" THEN "-n/--clone_count"
    ELSE "--greet"

\* The arguments the model draws argument vectors from.
Alphabet ==
    {OptC, OptN, OptGreet, OptH, <<"X">>, <<"1", "2">>, <<"0">>, <<"-", "1">>}

\* Every tuple over S of length at most n.
SeqsUpTo(S, n) == UNION {[1..m -> S] : m \in 0..n}

AllDigits(cs) == cs # <<>> /\ \A k \in 1..Len(cs) : IsDigit(cs[k])

\* argparse's negative-number test: the parser has no option that looks
\* like a negative number, so such an argument is a value.
IsNegativeNumber(tok) == Len(tok) >= 2 /\ tok[1] = "-" /\ AllDigits(Tail(tok))

\* "O" for an argument read as an option string, "A" for a plain value.
Kind(tok) ==
    IF tok = <<>> \/ tok[1] # "-" THEN "A"
    ELSE IF Dest(tok) # "" THEN "O"
    ELSE IF Len(tok) = 1 THEN "A"
    ELSE IF IsNegativeNumber(tok) THEN "A"
    ELSE "O"

RECURSIVE DigitsVal(_)
DigitsVal(cs) == IF cs = <<>> THEN 0
                 ELSE 10 * DigitsVal(SubSeq(cs, 1, Len(cs) - 1)) + DigitVal(cs[Len(cs)])

\* ParseInt as C's atoi would do it: text that is no number reads as 0.
ParseIntLenient(tok) ==
    LET signed == tok # <<>> /\ tok[1] \in {"-", "+"}
        body   == IF signed THEN Tail(tok) ELSE tok
    IN IF ~AllDigits(body) THEN [ok |-> TRUE, val |-> 0]
       ELSE [ok |-> TRUE,
             val |-> IF signed /\ tok[1] = "-" THEN 0 - DigitsVal(body) ELSE DigitsVal(body)]

\* type=int: int(string), an optional sign followed by decimal digits.
ParseInt(tok) ==
    LET signed == tok # <<>> /\ tok[1] \in {"-", "+"}
        body   == IF signed THEN Tail(tok) ELSE tok
    IN IF ~AllDigits(body) THEN [ok |-> FALSE, val |-> 0]
       ELSE [ok |-> TRUE,
             val |-> IF signed /\ tok[1] = "-" THEN 0 - DigitsVal(body) ELSE DigitsVal(body)]

\* The namespace parse_args starts from: nothing seen, greet defaulting to
\* False and both values unset.
EmptyNamespace ==
    [seen |-> {}, clone_name |-> <<>>, clone_count |-> 0, greet |-> FALSE]

\* Required with required=True left off line 9.
RequiredWithoutCount == <<"clone_name", "greet">>

\* Required with required=True left off line 10.
RequiredWithoutGreet == <<"clone_name", "clone_count">>

\* The required destinations in the order the parser registered them.
Required == <<"clone_name", "clone_count", "greet">>

Missing(ns) == SelectSeq(Required, LAMBDA d : d \notin ns.seen)

RequiredNames(ds) == [k \in 1..Len(ds) |-> ArgName(ds[k])]

JoinAll(toks) == [k \in 1..Len(toks) |-> Join(toks[k])]

\* parser.error(message): the second line written to standard error.
ErrorLine(message) == "tester.py: error: " \o message

\* What remains to decide once every argument is consumed: a required
\* argument never seen, then arguments nothing consumed.
Finish(ns, extras) ==
    IF Missing(ns) # <<>>
    THEN [kind |-> "error", ns |-> ns,
          msg |-> "the following arguments are required: "
                  \o JoinWith(RequiredNames(Missing(ns)), ", ")]
    ELSE IF extras # <<>>
    THEN [kind |-> "error", ns |-> ns,
          msg |-> "unrecognized arguments: " \o JoinWith(JoinAll(extras), " ")]
    ELSE [kind |-> "ok", ns |-> ns, msg |-> ""]

RECURSIVE Scan(_, _, _, _)
\* parse_args from argument k on: options are consumed left to right, each
\* acting as soon as it is read, so the first -h or the first bad option
\* ends the parse whatever follows it.
Scan(av, k, ns, extras) ==
    IF k > Len(av) THEN Finish(ns, extras)
    ELSE LET tok  == av[k]
             dest == Dest(tok)
         IN IF Kind(tok) = "A" \/ dest = ""
            THEN Scan(av, k + 1, ns, Append(extras, tok))
            ELSE IF dest = "help"
            THEN [kind |-> "help", ns |-> ns, msg |-> ""]
            ELSE IF dest = "greet"
            THEN Scan(av, k + 1,
                      [ns EXCEPT !.greet = TRUE, !.seen = @ \cup {"greet"}], extras)
            ELSE IF k = Len(av) \/ Kind(av[k + 1]) # "A"
            THEN [kind |-> "error", ns |-> ns,
                  msg |-> "argument " \o ArgName(dest) \o ": expected one argument"]
            ELSE IF dest = "clone_name"
            THEN Scan(av, k + 2,
                      [ns EXCEPT !.clone_name = av[k + 1],
                                 !.seen = @ \cup {"clone_name"}], extras)
            ELSE IF ~ParseInt(av[k + 1]).ok
            THEN [kind |-> "error", ns |-> ns,
                  msg |-> "argument " \o ArgName(dest) \o ": invalid int value: '"
                          \o Join(av[k + 1]) \o "'"]
            ELSE Scan(av, k + 2,
                      [ns EXCEPT !.clone_count = ParseInt(av[k + 1]).val,
                                 !.seen = @ \cup {"clone_count"}], extras)

\* parser.parse_args() on the process's arguments.
ParseResult(av) == Scan(av, 1, EmptyNamespace, <<>>)

UsageLine == "usage: tester.py [-h] -c CLONE_NAME -n CLONE_COUNT --greet"

\* parser.print_help(): the usage, the description of line 7 and the help
\* strings of lines 8-10.
HelpText ==
    << UsageLine,
       "",
       "Testing tmux script",
       "",
       "options:",
       "  -h, --help            show this help message and exit",
       "  -c CLONE_NAME, --clone_name CLONE_NAME",
       "                        The name of the clone to greet.",
       "  -n CLONE_COUNT, --clone_count CLONE_COUNT",
       "                        Number of clones to greet",
       "  --greet               Include a greeting (default: False)." >>

-----------------------------------------------------------------------------
(* The program *)

\* args before line 12 has bound it.
Unbound == [bound |-> FALSE, clone_name |-> <<>>, clone_count |-> 0, greet |-> FALSE]

\* The Namespace parse_args returns.
Namespace(ns) ==
    [bound |-> TRUE, clone_name |-> ns.clone_name,
     clone_count |-> ns.clone_count, greet |-> ns.greet]

\* Greeting numbering the clones from 1.
GreetingOneBased(name, index) ==
    Alien \o " says: Hello, " \o Join(name) \o NatStr(index + 1) \o "!"

\* The f-string of line 16.
Greeting(name, index) ==
    Alien \o " says: Hello, " \o Join(name) \o NatStr(index) \o "!"

\* RangeLen counting a negative bound by its magnitude.
RangeLenAbs(n) == IF n > 0 THEN n ELSE 0 - n

\* len(range(n)).
RangeLen(n) == IF n > 0 THEN n ELSE 0

Init ==
    /\ argv \in SeqsUpTo(Alphabet, MaxArgs)
    /\ pc = "parse_args"
    /\ args = Unbound
    /\ i = 0
    /\ stdout = <<>>
    /\ stderr = <<>>
    /\ exitcode = -1

\* Line 12, every argument accepted: args is bound and the loop is next.
ParseOk ==
    /\ pc = "parse_args"
    /\ ParseResult(argv).kind = "ok"
    /\ args' = Namespace(ParseResult(argv).ns)
    /\ pc' = "for"
    /\ UNCHANGED <<argv, i, stdout, stderr, exitcode>>

\* ParseError writing its two lines to standard output.
ParseErrorOnStdout ==
    /\ pc = "parse_args"
    /\ ParseResult(argv).kind = "error"
    /\ stdout' = <<UsageLine, ErrorLine(ParseResult(argv).msg)>>
    /\ exitcode' = 2
    /\ pc' = "exited"
    /\ UNCHANGED <<argv, args, i, stderr>>

\* ParseError ending the process with status 0.
ParseErrorExitZero ==
    /\ pc = "parse_args"
    /\ ParseResult(argv).kind = "error"
    /\ stderr' = <<UsageLine, ErrorLine(ParseResult(argv).msg)>>
    /\ exitcode' = 0
    /\ pc' = "exited"
    /\ UNCHANGED <<argv, args, i, stdout>>

\* Line 12, parser.error: usage and message on standard error, exit status 2.
ParseError ==
    /\ pc = "parse_args"
    /\ ParseResult(argv).kind = "error"
    /\ stderr' = <<UsageLine, ErrorLine(ParseResult(argv).msg)>>
    /\ exitcode' = 2
    /\ pc' = "exited"
    /\ UNCHANGED <<argv, args, i, stdout>>

\* Line 12, the -h action: the help on standard output, exit status 0.
ParseHelp ==
    /\ pc = "parse_args"
    /\ ParseResult(argv).kind = "help"
    /\ stdout' = stdout \o HelpText
    /\ exitcode' = 0
    /\ pc' = "exited"
    /\ UNCHANGED <<argv, args, i, stderr>>

\* Greet stepping the index by two.
GreetSkipping ==
    /\ pc = "for"
    /\ i < RangeLen(args.clone_count)
    /\ stdout' = Append(stdout, Greeting(args.clone_name, i))
    /\ i' = i + 2
    /\ UNCHANGED <<argv, pc, args, stderr, exitcode>>

\* Greet counting args.clone_count down instead of an index up.
GreetCountingDown ==
    /\ pc = "for"
    /\ args.clone_count > 0
    /\ stdout' = Append(stdout, Greeting(args.clone_name, i))
    /\ i' = i + 1
    /\ args' = [args EXCEPT !.clone_count = @ - 1]
    /\ UNCHANGED <<argv, pc, stderr, exitcode>>

\* Lines 15-16, one iteration: range yields the next index and it is printed.
Greet ==
    /\ pc = "for"
    /\ i < RangeLen(args.clone_count)
    /\ stdout' = Append(stdout, Greeting(args.clone_name, i))
    /\ i' = i + 1
    /\ UNCHANGED <<argv, pc, args, stderr, exitcode>>

\* EndOfScript testing the index one past the end of the range.
EndOfScriptOffByOne ==
    /\ pc = "for"
    /\ i > RangeLen(args.clone_count)
    /\ exitcode' = 0
    /\ pc' = "exited"
    /\ UNCHANGED <<argv, args, i, stdout, stderr>>

\* Line 15, range exhausted: the module ends and the interpreter exits 0.
EndOfScript ==
    /\ pc = "for"
    /\ i >= RangeLen(args.clone_count)
    /\ exitcode' = 0
    /\ pc' = "exited"
    /\ UNCHANGED <<argv, args, i, stdout, stderr>>

Next == ParseOk \/ ParseError \/ ParseHelp \/ Greet \/ EndOfScript

Spec == Init /\ [][Next]_vars

\* The interpreter runs the script without pausing: a step that can be
\* taken is taken.
FairSpec == Spec /\ WF_vars(Next)

-----------------------------------------------------------------------------
(* What the claims speak of *)

Exited == pc = "exited"

\* Validation passed: parse_args returned and bound args.
Validated == args.bound

Has(toks) == \E k \in 1..Len(argv) : argv[k] \in toks

NameGiven  == Has({OptC, LongName})
CountGiven == Has({OptN, LongCount})
GreetGiven == Has({OptGreet})
HelpGiven  == Has({OptH, LongHelp})

DecimalDigits == {"0", "1", "2", "3", "4", "5", "6", "7", "8", "9"}

\* Text that is an integer literal: an optional sign, then digits only.
IntegerText(tok) ==
    \/ /\ tok # <<>>
       /\ \A k \in 1..Len(tok) : tok[k] \in DecimalDigits
    \/ /\ Len(tok) >= 2
       /\ tok[1] \in {"-", "+"}
       /\ \A k \in 2..Len(tok) : tok[k] \in DecimalDigits

\* An argument that can stand as an option's value: it does not start
\* with '-', or it is a negative number.
ValueText(tok) ==
    tok # <<>> /\ (tok[1] # "-" \/ (IntegerText(tok) /\ Len(tok) >= 2))

\* Argument k is -n and the argument after it is a value that is no integer.
BadCountAt(k) ==
    /\ k < Len(argv)
    /\ argv[k] \in {OptN, LongCount}
    /\ ValueText(argv[k + 1])
    /\ ~IntegerText(argv[k + 1])

\* Argument k is -c or -n and no value follows it.
NoValueAt(k) ==
    /\ k <= Len(argv)
    /\ argv[k] \in {OptC, LongName, OptN, LongCount}
    /\ (k = Len(argv) \/ ~ValueText(argv[k + 1]))

RECURSIVE OnlyTheThree(_)
\* From argument k on, the vector is made of nothing but '-c value',
\* '-n integer' and '--greet'.
OnlyTheThree(k) ==
    IF k > Len(argv) THEN TRUE
    ELSE IF argv[k] = OptGreet THEN OnlyTheThree(k + 1)
    ELSE IF argv[k] \in {OptC, LongName}
    THEN k < Len(argv) /\ ValueText(argv[k + 1]) /\ OnlyTheThree(k + 2)
    ELSE IF argv[k] \in {OptN, LongCount}
    THEN k < Len(argv) /\ IntegerText(argv[k + 1]) /\ OnlyTheThree(k + 2)
    ELSE FALSE

\* The greeting for index k, spelled out.
Line(name, k) == "<U+1F47D> says: Hello, " \o Join(name) \o NatStr(k) \o "!"

\* The whole output of a validated run, from the two parsed values alone.
Output(name, n) == [k \in 1..(IF n > 0 THEN n ELSE 0) |-> Line(name, k - 1)]

\* The usage-error end: a diagnostic on standard error, exit status 2,
\* nothing on standard output, the loop never entered.
UsageErrorEnd ==
    /\ exitcode = 2
    /\ Len(stderr) = 2
    /\ stderr[2] # ""
    /\ stdout = <<>>
    /\ ~Validated
    /\ i = 0

\* The help end: the help on standard output, exit status 0, no loop.
HelpEnd ==
    /\ exitcode = 0
    /\ stdout = HelpText
    /\ stderr = <<>>
    /\ ~Validated
    /\ i = 0

\* The successful end: validation passed, the loop ran, exit status 0.
SuccessEnd ==
    /\ exitcode = 0
    /\ Validated
    /\ stderr = <<>>
    /\ i = (IF args.clone_count > 0 THEN args.clone_count ELSE 0)
    /\ Len(stdout) = i

-----------------------------------------------------------------------------
(* The claims *)

\* C1: a validated run with clone_name X and clone_count N >= 0 ends with
\* exactly N lines on standard output, line i (from 0) being the greeting
\* of X<i>; for '-c X -n 12 --greet' these are the twelve lines X0 .. X11.
C1_GreetingLines ==
    /\ (Exited /\ Validated /\ args.clone_count >= 0) =>
          /\ exitcode = 0
          /\ Len(stdout) = args.clone_count
          /\ \A k \in 0..(args.clone_count - 1) :
                stdout[k + 1] = Line(args.clone_name, k)
    /\ (Exited /\ argv = <<OptC, <<"X">>, OptN, <<"1", "2">>, OptGreet>>) =>
          stdout =
          << "<U+1F47D> says: Hello, X0!",
             "<U+1F47D> says: Hello, X1!",
             "<U+1F47D> says: Hello, X2!",
             "<U+1F47D> says: Hello, X3!",
             "<U+1F47D> says: Hello, X4!",
             "<U+1F47D> says: Hello, X5!",
             "<U+1F47D> says: Hello, X6!",
             "<U+1F47D> says: Hello, X7!",
             "<U+1F47D> says: Hello, X8!",
             "<U+1F47D> says: Hello, X9!",
             "<U+1F47D> says: Hello, X10!",
             "<U+1F47D> says: Hello, X11!" >>

C1_Witness ==
    /\ Exited
    /\ Validated
    /\ args.clone_name = <<"X">>
    /\ args.clone_count = 12
    /\ Len(stdout) = 12

\* C2 as stated: whenever -c or -n is absent the run ends with a non-zero
\* exit code and nothing on standard output, whatever else is given.
C2_Original ==
    (Exited /\ (~NameGiven \/ ~CountGiven)) => (exitcode # 0 /\ stdout = <<>>)

\* C2 amended: with -c or -n absent the loop is never entered and the run
\* ends in the usage error (exit 2, nothing on standard output), unless a
\* -h is given and ends it with the help text and exit code 0.
C2_MissingNameOrCount ==
    (~NameGiven \/ ~CountGiven) =>
        /\ pc # "for"
        /\ ~Validated
        /\ Exited => (UsageErrorEnd \/ (HelpGiven /\ HelpEnd))

C2_Witness ==
    /\ Exited
    /\ NameGiven
    /\ GreetGiven
    /\ ~CountGiven
    /\ ~HelpGiven
    /\ UsageErrorEnd

HelpBefore(k) == \E j \in 1..(k - 1) : argv[j] \in {OptH, LongHelp}

\* C4 as stated: whenever the value after -n is no integer the run ends in
\* the usage error and the loop is never entered.
C4_Original ==
    (\E k \in 1..Len(argv) : BadCountAt(k)) =>
        /\ pc # "for"
        /\ Exited => (stderr # <<>> /\ exitcode # 0)

\* C4 amended: whenever the value after -n is no integer and no -h stands
\* before that -n, the run ends in the usage error (a diagnostic on
\* standard error, exit 2) and the loop is never entered.
C4_NonIntegerCount ==
    (\E k \in 1..Len(argv) : BadCountAt(k) /\ ~HelpBefore(k)) =>
        /\ pc # "for"
        /\ Exited => UsageErrorEnd

C4_Witness ==
    /\ Exited
    /\ NameGiven
    /\ HelpGiven
    /\ \E k \in 1..Len(argv) : BadCountAt(k) /\ ~HelpBefore(k)
    /\ UsageErrorEnd

\* C5: a validated run with clone_count zero or negative never runs the
\* loop body: nothing is written and the exit code is 0; '-n -1 -c X
\* --greet' is such a run, with clone_count -1.
C5_NoIterations ==
    /\ (Validated /\ args.clone_count <= 0) =>
          /\ i = 0
          /\ stdout = <<>>
          /\ stderr = <<>>
          /\ Exited => exitcode = 0
    /\ (Exited /\ argv = <<OptN, <<"-", "1">>, OptC, <<"X">>, OptGreet>>) =>
          /\ Validated
          /\ args.clone_count = 0 - 1
          /\ exitcode = 0

C5_Witness ==
    /\ Exited
    /\ Validated
    /\ args.clone_count < 0
    /\ exitcode = 0
    /\ stdout = <<>>

\* C6 as stated: standard output is never non-empty unless validation has
\* passed, and a failed run has written nothing to it.
C6_Original ==
    /\ stdout # <<>> => Validated
    /\ exitcode = 2 => stdout = <<>>

\* C6 amended: no greeting line is written before validation has passed:
\* without it standard output is empty or, at the help end, the help text;
\* a failed run has written nothing to standard output, and once the loop
\* has started the run can only go on looping or exit with code 0.
C6_ValidationBeforeGreeting ==
    /\ [](/\ pc = "parse_args" => stdout = <<>>
          /\ (stdout # <<>> /\ ~Validated) => (Exited /\ HelpGiven /\ HelpEnd)
          /\ exitcode = 2 => (Exited /\ UsageErrorEnd)
          /\ pc = "for" => Validated)
    /\ [][pc = "for" => (pc' = "for" \/ (pc' = "exited" /\ exitcode' = 0))]_vars

C6_Witness ==
    /\ pc = "for"
    /\ Validated
    /\ stdout # <<>>
    /\ stdout[1] = Line(args.clone_name, 0)

Malformed == \E k \in 1..Len(argv) : BadCountAt(k) \/ NoValueAt(k)

CountsParse ==
    \A k \in 1..Len(argv) :
        argv[k] \in {OptN, LongCount} => (k < Len(argv) /\ IntegerText(argv[k + 1]))

\* C7 as stated: exit code 0 whenever the three arguments are present and
\* clone_count parses, non-zero whenever one is missing or malformed, and
\* never 0 without validation passed.
C7_Original ==
    Exited =>
        /\ (NameGiven /\ CountGiven /\ GreetGiven /\ CountsParse) => exitcode = 0
        /\ (~NameGiven \/ ~CountGiven \/ ~GreetGiven \/ Malformed) => exitcode # 0
        /\ exitcode = 0 => Validated

\* C7 amended: exit code 0 whenever the arguments are nothing but the
\* three options, all present and well-formed; exit code 2 whenever one is
\* missing or malformed and no -h is given; exit code 0 only after
\* validation passed or at the help end; and validation passes only for
\* such an argument vector.
C7_ExitCodes ==
    /\ Exited =>
          /\ exitcode \in {0, 2}
          /\ (NameGiven /\ CountGiven /\ GreetGiven /\ OnlyTheThree(1)) =>
                (exitcode = 0 /\ Validated)
          /\ ((~NameGiven \/ ~CountGiven \/ ~GreetGiven \/ Malformed) /\ ~HelpGiven) =>
                exitcode = 2
          /\ exitcode = 0 => (Validated \/ (HelpGiven /\ HelpEnd))
    /\ Validated => (NameGiven /\ CountGiven /\ GreetGiven /\ OnlyTheThree(1))

C7_Witness ==
    /\ Exited
    /\ exitcode = 0
    /\ Validated
    /\ ~HelpGiven
    /\ OnlyTheThree(1)

\* C8 as stated: a run ends either in the usage error or in the successful
\* end, where the loop has run max(0, clone_count) times.
C8_Original ==
    Exited => (UsageErrorEnd \/ SuccessEnd)

\* C8 amended: every run eventually exits, in the usage error, in the help
\* end or in the successful end, where the loop has run exactly
\* max(0, clone_count) times; parsing is never re-entered and nothing
\* happens after the exit.
C8_Terminates ==
    /\ <>Exited
    /\ [](Exited => (UsageErrorEnd \/ (HelpGiven /\ HelpEnd) \/ SuccessEnd))
    /\ [][pc # "parse_args" => pc' # "parse_args"]_vars
    /\ [][~Exited]_vars

C8_Witness ==
    /\ Exited
    /\ SuccessEnd
    /\ args.clone_count = 12
    /\ i = 12

\* C9: in a validated run standard output has as many lines as iterations
\* are completed, 0 <= i <= max(0, clone_count), line k being the greeting
\* of index k - 1, and it only ever grows by the greeting of index i.
C9_LoopInvariant ==
    /\ [](Validated =>
            /\ Len(stdout) = i
            /\ 0 <= i
            /\ i <= (IF args.clone_count > 0 THEN args.clone_count ELSE 0)
            /\ \A k \in 1..i : stdout[k] = Line(args.clone_name, k - 1))
    /\ [][(Validated /\ stdout' # stdout) =>
            /\ stdout' = Append(stdout, Line(args.clone_name, i))
            /\ i' = i + 1]_vars

C9_Witness ==
    /\ pc = "for"
    /\ 0 < i
    /\ i < args.clone_count
    /\ Len(stdout) = i

\* C10: the arguments and, once bound, the parsed values never change, and
\* the output of a validated run is the function Output of clone_name and
\* clone_count alone: the lines written so far are its first i, the lines
\* at the exit are all of it.
C10_FrameAndDeterminism ==
    /\ [][argv' = argv]_vars
    /\ [][Validated => args' = args]_vars
    /\ [](Validated =>
            /\ i <= Len(Output(args.clone_name, args.clone_count))
            /\ stdout = SubSeq(Output(args.clone_name, args.clone_count), 1, i))
    /\ []((Exited /\ Validated) => stdout = Output(args.clone_name, args.clone_count))

C10_Witness ==
    /\ Exited
    /\ Validated
    /\ args.greet
    /\ stdout # <<>>
    /\ stdout = Output(args.clone_name, args.clone_count)

=============================================================================
